---- MODULE Spec2Model ----
(***************************************************************************)
(* svg-to-geojson: reducePathSegCurveComplexity, getSVGDimensions and      *)
(* svgToGeoJson, as three functions a caller invokes.  Init draws one      *)
(* call with its arguments; one action per function runs it to the end.    *)
(*                                                                         *)
(* Drawing coordinates are fixed-point numbers with one binary digit       *)
(* after the point: the integer h stands for h/2 px.  Lengths handed to    *)
(* the geometry engine (getTotalLength, getPointAtLength) are in px.       *)
(* Projected coordinates are exact fractions [num, den]; den = 0 is NaN.   *)
(***************************************************************************)
EXTENDS Integers, Sequences, FiniteSets, TLC

VARIABLES fn, args, pc, ret

vars == <<fn, args, pc, ret>>

\* Longest pathSegList handed to reducePathSegCurveComplexity directly.
MaxSegs == 3
\* Largest complexity argument.
MaxComplexity == 3
\* Most elements querySelectorAll finds in one svgNode.
MaxElems == 2

Abs(x) == IF x < 0 THEN 0 - x ELSE x

Sign(x) == IF x < 0 THEN 0 - 1 ELSE IF x > 0 THEN 1 ELSE 0

----------------------------------------------------------------------------
(* Path segments, as getPathData({normalize: true}) returns them.          *)

Seg(t, v) == [type |-> t, values |-> v]

MoveTo(p) == Seg("M", p)

LineTo(p) == Seg("L", p)

CurveTo(c1, c2, e) == Seg("C", c1 \o c2 \o e)

ClosePath == Seg("Z", <<>>)

\* lastSeg before the first iteration: declared, never assigned.
undefined == Seg("undefined", <<>>)

\* Array.prototype.slice(-2): the last two entries, fewer when there are fewer.
SliceLast2(values) ==
    IF Len(values) <= 2 THEN values
    ELSE SubSeq(values, Len(values) - 1, Len(values))

\* Math.ceil(a / b) for an integer a >= 0 and an integer b > 0.
CeilDiv(a, b) == (a + b - 1) \div b

----------------------------------------------------------------------------
(* The host's geometry engine on the temporary path "M a C c1 c2 e".       *)
(* It is computed exactly for the two shapes of cubic the inputs are drawn *)
(* from, both with c1 = c2 on an axis-parallel line through the anchor:    *)
(*   straight  c1 = c2 = e:  B(t) = a + (1-(1-t)^3) (e-a), length |e-a|;   *)
(*   loop      e = a:        B(t) = a + 3t(1-t) (c-a), out to 3/4 of the   *)
(*             way to c and back, length 3/2 |c-a|.                        *)
(* A "d" attribute whose M has no coordinates is a path-data error: the    *)
(* path is empty and its length is 0.                                      *)

Aligned(p, q) == p[1] = q[1] \/ p[2] = q[2]

Dist(p, q) == Abs(q[1] - p[1]) + Abs(q[2] - p[2])

Ctl1(values) == SubSeq(values, 1, 2)

Ctl2(values) == SubSeq(values, 3, 4)

EndPt(values) == SubSeq(values, 5, 6)

IsStraight(a, values) ==
    /\ Ctl1(values) = EndPt(values)
    /\ Ctl2(values) = EndPt(values)
    /\ Aligned(a, EndPt(values))

IsLoop(a, values) ==
    /\ EndPt(values) = a
    /\ Ctl1(values) = Ctl2(values)
    /\ Aligned(a, Ctl1(values))
    /\ Dist(a, Ctl1(values)) % 2 = 0

\* The curves whose length and points the model computes.
Measurable(a, values) == IsStraight(a, values) \/ IsLoop(a, values)

\* Curve length in half px.
CurveLen2(a, values) ==
    IF IsStraight(a, values) THEN Dist(a, EndPt(values))
    ELSE (3 * Dist(a, Ctl1(values))) \div 2

\* tmpPath.getTotalLength() rounded up: Math.ceil of a length of l2 / 2 px.
\* The anchor is lastSeg.values.slice(-2): empty after a Z segment.
getTotalLengthCeil(anchor, values) ==
    IF Len(anchor) < 2 THEN 0
    ELSE CeilDiv(CurveLen2(anchor, values), 2)

\* Move p by h half px towards q (p and q on one axis-parallel line).
Towards(p, q, h) ==
    <<p[1] + h * Sign(q[1] - p[1]), p[2] + h * Sign(q[2] - p[2])>>

\* tmpPath.getPointAtLength(d), d in px, clamped to [0, total length].
getPointAtLength(anchor, values, d) ==
    LET l2 == CurveLen2(anchor, values)
        h0 == 2 * d
        h  == IF h0 < 0 THEN 0 ELSE IF h0 > l2 THEN l2 ELSE h0
    IN  IF IsStraight(anchor, values) THEN Towards(anchor, EndPt(values), h)
        ELSE IF 2 * h <= l2 THEN Towards(anchor, Ctl1(values), h)
        ELSE Towards(anchor, Ctl1(values), l2 - h)

----------------------------------------------------------------------------
(* reducePathSegCurveComplexity                                            *)

\* lengthStep = Math.ceil(tmpPathLength / complexity).  x / 0 is Infinity for
\* x > 0, modelled as a step past the curve's end (the loop condition
\* d <= len is then false at once, as with Infinity); 0 / 0 is NaN and
\* 0 / -n is -0, both falsy like 0; a negative complexity gives a negative
\* step, or -0.
lengthStep(tmpPathLength, complexity) ==
    IF complexity > 0 THEN CeilDiv(tmpPathLength, complexity)
    ELSE IF complexity = 0
    THEN IF tmpPathLength = 0 THEN 0 ELSE tmpPathLength + 1
    ELSE 0 - (tmpPathLength \div (0 - complexity))

\* if (!tmpPathLength || !lengthStep) return;
CantSample(tmpPathLength, step) == tmpPathLength = 0 \/ step = 0

\* for (d = lengthStep, len = tmpPathLength; d <= len; d += lengthStep)
\* with a negative step d <= len stays true: the loop never ends.
LoopNeverEnds(tmpPathLength, step) == step < 0

RECURSIVE SampleLoop(_, _, _, _, _)
SampleLoop(anchor, values, d, step, len) ==
    IF d > len THEN <<>>
    ELSE <<LineTo(getPointAtLength(anchor, values, d))>>
         \o SampleLoop(anchor, values, d + step, step, len)

\* FinalSeg with the zero-based indices 4 and 5 read as one-based ones.
FinalSegOffByOne(seg) == LineTo(<<seg.values[4], seg.values[5]>>)

\* The L pushed after the loop, at the C command's values[4], values[5].
FinalSeg(seg) == LineTo(<<seg.values[5], seg.values[6]>>)

\* PassThrough that rebuilds every segment as an L.
PassThroughAsLine(seg) == LineTo(seg.values)

\* newSegs.push(seg) of a segment that is no curve.
PassThrough(seg) == seg

\* What one run of the forEach callback does: the segments it pushes onto
\* newSegs, the lastSeg it leaves, the length it measured (0 when the
\* segment is no curve), and how it ends: "ok", "TypeError" when
\* lastSeg.values is read off undefined, "hang" when the loop never ends.
Step(status, pushed, lastSeg, len) ==
    [status |-> status, pushed |-> pushed, lastSeg |-> lastSeg, tmpPathLength |-> len]

\* callback whose length check skips the sampling loop only: the final L is
\* pushed and the curve recorded as lastSeg, whatever its length.
callbackSkipsLoopOnly(seg, complexity, lastSeg) ==
    IF seg.type = "C"
    THEN
      IF lastSeg = undefined THEN Step("TypeError", <<>>, lastSeg, 0)
      ELSE
        LET anchor == SliceLast2(lastSeg.values)
            len    == getTotalLengthCeil(anchor, seg.values)
            step   == lengthStep(len, complexity)
        IN  IF CantSample(len, step) THEN Step("ok", <<FinalSeg(seg)>>, seg, len)
            ELSE IF LoopNeverEnds(len, step) THEN Step("hang", <<>>, lastSeg, len)
            ELSE Step("ok",
                      SampleLoop(anchor, seg.values, step, step, len)
                          \o <<FinalSeg(seg)>>,
                      seg, len)
    ELSE Step("ok", <<PassThrough(seg)>>, seg, 0)

callback(seg, complexity, lastSeg) ==
    IF seg.type = "C"
    THEN
      IF lastSeg = undefined THEN Step("TypeError", <<>>, lastSeg, 0)
      ELSE
        LET anchor == SliceLast2(lastSeg.values)
            len    == getTotalLengthCeil(anchor, seg.values)
            step   == lengthStep(len, complexity)
        IN  IF CantSample(len, step) THEN Step("ok", <<>>, lastSeg, len)
            ELSE IF LoopNeverEnds(len, step) THEN Step("hang", <<>>, lastSeg, len)
            ELSE Step("ok",
                      SampleLoop(anchor, seg.values, step, step, len)
                          \o <<FinalSeg(seg)>>,
                      seg, len)
    ELSE Step("ok", <<PassThrough(seg)>>, seg, 0)

\* One log entry per segment visited: the lastSeg the callback saw, the
\* length it measured and how many segments it pushed.
LogEntry(lastSeg, step) ==
    [lastSeg |-> lastSeg, tmpPathLength |-> step.tmpPathLength,
     pushed |-> Len(step.pushed)]

\* pathSegList.forEach(...), from index i on.  A call that throws or never
\* ends returns no newSegs.
RECURSIVE forEachSeg(_, _, _, _, _, _)
forEachSeg(pathSegList, i, complexity, newSegs, lastSeg, log) ==
    IF i > Len(pathSegList)
    THEN [status |-> "ok", newSegs |-> newSegs, log |-> log]
    ELSE
      LET step == callback(pathSegList[i], complexity, lastSeg)
          log2 == Append(log, LogEntry(lastSeg, step))
      IN  IF step.status # "ok"
          THEN [status |-> step.status, newSegs |-> <<>>, log |-> log2]
          ELSE forEachSeg(pathSegList, i + 1, complexity,
                          newSegs \o step.pushed, step.lastSeg, log2)

reducePathSegCurveComplexity(pathSegList, complexity) ==
    forEachSeg(pathSegList, 1, complexity, <<>>, undefined, <<>>)

----------------------------------------------------------------------------
(* JavaScript values met by getSVGDimensions and the d3 scales.            *)
(* A number is an exact fraction num/den; den = 0 is NaN.  A string is a   *)
(* sequence of one-character strings.                                      *)

Num(n) == [t |-> "number", num |-> n, den |-> 1, str |-> <<>>]

NaN == [t |-> "number", num |-> 0, den |-> 0, str |-> <<>>]

Str(s) == [t |-> "string", num |-> 0, den |-> 0, str |-> s]

\* getAttribute of an attribute the element does not have.
null == [t |-> "null", num |-> 0, den |-> 0, str |-> <<>>]

undefinedValue == [t |-> "undefined", num |-> 0, den |-> 0, str |-> <<>>]

\* The return value `false`.
false == [t |-> "boolean", num |-> 0, den |-> 0, str |-> <<>>]

isNaN(v) == v.t = "number" /\ v.den = 0

DigitChars == <<"0", "1", "2", "3", "4", "5", "6", "7", "8", "9">>

IsDigit(ch) == \E k \in 1..10 : DigitChars[k] = ch

DigitVal(ch) == (CHOOSE k \in 1..10 : DigitChars[k] = ch) - 1

IsSpace(ch) == ch = " "

RECURSIVE SkipSpaces(_, _)
SkipSpaces(s, i) ==
    IF i <= Len(s) /\ IsSpace(s[i]) THEN SkipSpaces(s, i + 1) ELSE i

\* The value of the longest run of digits of s from index i, acc so far;
\* <<value, index after the run>>.
RECURSIVE ReadDigits(_, _, _)
ReadDigits(s, i, acc) ==
    IF i <= Len(s) /\ IsDigit(s[i])
    THEN ReadDigits(s, i + 1, 10 * acc + DigitVal(s[i]))
    ELSE <<acc, i>>

\* parseInt(v, 10): ToString(v), leading white space skipped, an optional
\* sign, then the longest prefix of digits; NaN when there is none.  What
\* follows the digits is ignored ("4px" is 4).  null reads as "null".
parseInt(v) ==
    IF v.t # "string" THEN NaN
    ELSE
      LET s    == v.str
          i0   == SkipSpaces(s, 1)
          neg  == i0 <= Len(s) /\ s[i0] = "-"
          i1   == IF i0 <= Len(s) /\ s[i0] \in {"-", "+"} THEN i0 + 1 ELSE i0
          r    == ReadDigits(s, i1, 0)
      IN  IF r[2] = i1 THEN NaN
          ELSE Num(IF neg THEN 0 - r[1] ELSE r[1])

\* Unary + on a value, as d3's domain() applies it: the whole string has to
\* be a number (white space around it aside), undefined is NaN.
ToNumber(v) ==
    IF v.t = "number" THEN v
    ELSE IF v.t = "string"
    THEN LET s    == v.str
             i0   == SkipSpaces(s, 1)
             neg  == i0 <= Len(s) /\ s[i0] = "-"
             i1   == IF i0 <= Len(s) /\ s[i0] \in {"-", "+"} THEN i0 + 1 ELSE i0
             r    == ReadDigits(s, i1, 0)
         IN  IF i0 > Len(s) THEN Num(0)
             ELSE IF r[2] = i1 \/ SkipSpaces(s, r[2]) <= Len(s) THEN NaN
             ELSE Num(IF neg THEN 0 - r[1] ELSE r[1])
    ELSE IF v.t \in {"null", "boolean"} THEN Num(0)
    ELSE NaN

\* String.prototype.split(/\s+/): the pieces between runs of white space
\* (an empty first or last piece when the string starts or ends with one).
RECURSIVE SplitFrom(_, _, _)
SplitFrom(s, i, piece) ==
    IF i > Len(s) THEN <<Str(piece)>>
    ELSE IF IsSpace(s[i])
    THEN <<Str(piece)>> \o SplitFrom(s, SkipSpaces(s, i), <<>>)
    ELSE SplitFrom(s, i + 1, Append(piece, s[i]))

split(v) == SplitFrom(v.str, 1, <<>>)

\* wh[k] with a zero-based k: undefined past the end of the array.
At(arr, k) == IF k + 1 <= Len(arr) THEN arr[k + 1] ELSE undefinedValue

----------------------------------------------------------------------------
(* getSVGDimensions                                                        *)

\* typeof viewBox.replace(/^0-9/g, ''): replace returns a string.
typeofReplaced(viewBox) == "string"

\* if (!viewBox || typeof viewBox.replace(...) !== 'number') return false;
ViewBoxRejected(viewBox) ==
    \/ viewBox.t = "null"
    \/ (viewBox.t = "string" /\ viewBox.str = <<>>)
    \/ typeofReplaced(viewBox) # "number"

\* if (typeof width !== 'number' || isNaN(width) || ... height ...)
NeedsViewBox(width, height) ==
    \/ width.t # "number" \/ isNaN(width)
    \/ height.t # "number" \/ isNaN(height)

Dims(w, h) == [isObject |-> TRUE, width |-> w, height |-> h]

\* `false`: reading .width or .height off it gives undefined.
NoDims == [isObject |-> FALSE, width |-> undefinedValue, height |-> undefinedValue]

getSVGDimensions(svgNode) ==
    LET width  == parseInt(svgNode.width)
        height == parseInt(svgNode.height)
    IN  IF NeedsViewBox(width, height)
        THEN IF ViewBoxRejected(svgNode.viewBox) THEN NoDims
             ELSE LET wh == split(svgNode.viewBox)
                  IN  Dims(At(wh, 2), At(wh, 3))
        ELSE Dims(width, height)

----------------------------------------------------------------------------
(* d3-scale's scaleLinear, with the domain [0, d1] and the range [r0, r1]  *)
(* that svgToGeoJson gives it.  x is a drawing coordinate in half px, or   *)
(* undefinedValue.  The result is the fraction                             *)
(*     r0 + (r1 - r0) * (x/2) / d1  =  (2 d1 r0 + (r1 - r0) x) / (2 d1).   *)
(* A NaN domain end or input gives NaN.  On a collapsed domain (d1 = 0)    *)
(* the releases differ: d3-scale 1.x answers the start of the range,       *)
(* later releases its middle; `collapsed` says which one is installed.     *)

Frac(n, d) == [num |-> n, den |-> d]

FracNaN == Frac(0, 0)

\* Equality of two numbers as === has it: NaN equals nothing.
NumEq(a, b) == a.den # 0 /\ b.den # 0 /\ a.num * b.den = b.num * a.den

\* One coordinate read off a segment's values; undefined past their end.
Coord(values, k) ==
    IF k <= Len(values) THEN Num(values[k]) ELSE undefinedValue

scaleLinear(d1v, r0, r1, collapsed, xv) ==
    LET d1 == ToNumber(d1v)
        x  == ToNumber(xv)
    IN  IF isNaN(d1) \/ isNaN(x) THEN FracNaN
        ELSE IF d1.num = 0
        THEN IF collapsed = "start" THEN Frac(r0, 1) ELSE Frac(r0 + r1, 2)
        ELSE Frac(2 * d1.num * r0 + (r1 - r0) * x.num, 2 * d1.num)

\* parseFloat of a bound the caller gives as a number.
parseFloat(n) == n

----------------------------------------------------------------------------
(* svgToGeoJson                                                            *)

\* bounds = [[north, east], [south, west]]
ne(bounds) == bounds[1]

sw(bounds) == bounds[2]

mapX(bounds, svgDims, collapsed, x) ==
    scaleLinear(svgDims.width, parseFloat(sw(bounds)[2]), parseFloat(ne(bounds)[2]),
                collapsed, x)

mapY(bounds, svgDims, collapsed, y) ==
    scaleLinear(svgDims.height, parseFloat(ne(bounds)[1]), parseFloat(sw(bounds)[1]),
                collapsed, y)

\* pathData.map(...): a Z takes the coordinates of pathData[0].
CoordsOf(pathData, pathitem) ==
    IF pathitem.type = "Z"
    THEN <<Coord(pathData[1].values, 1), Coord(pathData[1].values, 2)>>
    ELSE <<Coord(pathitem.values, 1), Coord(pathitem.values, 2)>>

coordsOfPath(pathData) ==
    [k \in 1..Len(pathData) |-> CoordsOf(pathData, pathData[k])]

mappedCoordsOf(bounds, svgDims, collapsed, coords) ==
    [k \in 1..Len(coords) |->
        <<mapX(bounds, svgDims, collapsed, coords[k][1]),
          mapY(bounds, svgDims, collapsed, coords[k][2])>>]

\* elem.getAttribute(attr): the elements of the model carry one attribute, id.
getAttribute(elem, attr) == IF attr = "id" THEN elem.id ELSE null

\* if (value): a string that is not empty.
Truthy(value) == value.t = "string" /\ value.str # <<>>

\* attributes.forEach: the properties object, as its set of <<key, value>>.
propertiesOf(elem, attributes) ==
    {<<attributes[k], getAttribute(elem, attributes[k])>> :
        k \in {j \in 1..Len(attributes) : Truthy(getAttribute(elem, attributes[j]))}}

geometryType(elem) == IF elem.tagName = "polyline" THEN "LineString" ELSE "Polygon"

geometryCoordinates(elem, mappedCoords) ==
    IF elem.tagName = "polyline" THEN mappedCoords ELSE <<mappedCoords>>

Feature(elem, attributes, mappedCoords) ==
    [type |-> "Feature",
     properties |-> propertiesOf(elem, attributes),
     geometry |-> [type |-> geometryType(elem),
                   coordinates |-> geometryCoordinates(elem, mappedCoords)]]

\* elems.forEach(...), from element i on.  An exception or an endless loop
\* inside reducePathSegCurveComplexity ends the whole call: nothing is
\* returned.
RECURSIVE forEachElem(_, _, _, _, _, _, _, _)
forEachElem(elems, i, bounds, svgDims, collapsed, complexity, attributes, features) ==
    IF i > Len(elems)
    THEN [status |-> "ok", features |-> features]
    ELSE
      LET elem    == elems[i]
          reduced == reducePathSegCurveComplexity(elem.pathData, complexity)
      IN  IF reduced.status # "ok"
          THEN [status |-> reduced.status, features |-> <<>>]
          ELSE
            LET pathData     == reduced.newSegs
                coords       == coordsOfPath(pathData)
                mappedCoords == mappedCoordsOf(bounds, svgDims, collapsed, coords)
            IN  forEachElem(elems, i + 1, bounds, svgDims, collapsed, complexity,
                            attributes,
                            Append(features, Feature(elem, attributes, mappedCoords)))

svgToGeoJson(bounds, svgNode, complexity, attributes, collapsed) ==
    LET svgDims == getSVGDimensions(svgNode)
        r == forEachElem(svgNode.elems, 1, bounds, svgDims, collapsed, complexity,
                         attributes, <<>>)
    IN  [status  |-> r.status,
         svgDims |-> svgDims,
         geoJson |-> [type |-> "FeatureCollection", features |-> r.features]]

----------------------------------------------------------------------------
(* The calls the model makes.                                              *)

\* complexity = 5 when the caller gives none.
DefaultComplexity == 5

\* An optional argument, as the argument list holds it: <<v>> when it is
\* given, <<>> when it is left out.
Given(v) == <<v>>

Omitted == <<>>

Param(arg, default) == IF arg = Omitted THEN default ELSE arg[1]

ComplexityArgs == {Given(c) : c \in (0 - 2)..MaxComplexity} \cup {Omitted}

Points == {<<0, 0>>, <<1, 0>>, <<4, 0>>, <<4, 4>>}

\* <<control, end>> of the loops: closed when drawn from an anchor equal to end.
LoopPairs == {<<<<4, 0>>, <<0, 0>>>>, <<<<4, 4>>, <<4, 0>>>>}

SegPool ==
    {MoveTo(p) : p \in Points} \cup {LineTo(p) : p \in Points}
    \cup {CurveTo(p, p, p) : p \in Points}
    \cup {CurveTo(l[1], l[1], l[2]) : l \in LoopPairs}
    \cup {ClosePath}

Paths == UNION {[1..n -> SegPool] : n \in 0..MaxSegs}

\* The geometry engine of the model is exact on this call: every curve it
\* was asked to measure is one of the two shapes it computes.
Exact(pathSegList, complexity) ==
    LET log == reducePathSegCurveComplexity(pathSegList, complexity).log
    IN  \A k \in 1..Len(log) :
            (/\ pathSegList[k].type = "C"
             /\ Len(SliceLast2(log[k].lastSeg.values)) = 2)
            => Measurable(SliceLast2(log[k].lastSeg.values), pathSegList[k].values)

ReduceArgs ==
    {a \in [pathSegList : Paths, complexity : ComplexityArgs] :
        Exact(a.pathSegList, Param(a.complexity, DefaultComplexity))}

Chars(s) == Str(s)

WidthPool == {null, Chars(<<"2">>), Chars(<<"2", "p", "x">>), Chars(<<"0">>),
              Chars(<<"a", "u", "t", "o">>)}

HeightPool == {null, Chars(<<"1">>), Chars(<<"-", "1">>)}

ViewBoxPool == {null, Chars(<<"0", " ", "0", " ", "2", " ", "1">>),
                Chars(<<"n", "o", "n", "e">>)}

Elem(tag, id, pathData) == [tagName |-> tag, id |-> id, pathData |-> pathData]

\* A rect of 2 px by 1 px, as its normalized path data.
RectElem ==
    Elem("rect", Chars(<<"r">>),
         <<MoveTo(<<0, 0>>), LineTo(<<4, 0>>), LineTo(<<4, 2>>), LineTo(<<0, 2>>),
           ClosePath>>)

PolylineElem ==
    Elem("polyline", null, <<MoveTo(<<0, 0>>), LineTo(<<4, 0>>), LineTo(<<4, 2>>)>>)

\* A path that is not closed.
OpenPathElem ==
    Elem("path", Chars(<<>>), <<MoveTo(<<0, 0>>), LineTo(<<4, 0>>), LineTo(<<4, 2>>)>>)

\* A closed path with one curve.
CurvePathElem ==
    Elem("path", Chars(<<"c">>),
         <<MoveTo(<<0, 0>>), CurveTo(<<4, 0>>, <<4, 0>>, <<4, 0>>), LineTo(<<4, 2>>),
           ClosePath>>)

\* Two closed subpaths.
TwoSubpathsElem ==
    Elem("path", null,
         <<MoveTo(<<0, 0>>), LineTo(<<4, 0>>), ClosePath,
           MoveTo(<<4, 2>>), LineTo(<<0, 2>>), ClosePath>>)

\* Path data that starts with a curve: nothing gives it a start point.
CurveFirstElem ==
    Elem("path", null, <<CurveTo(<<4, 0>>, <<4, 0>>, <<4, 0>>), ClosePath>>)

EmptyPathElem == Elem("path", null, <<>>)

ElemPool == {RectElem, PolylineElem, OpenPathElem, CurvePathElem, TwoSubpathsElem,
             CurveFirstElem, EmptyPathElem}

ElemLists == UNION {[1..n -> ElemPool] : n \in 0..MaxElems}

SvgNodes == [width : WidthPool, height : HeightPool, viewBox : ViewBoxPool,
             elems : ElemLists]

\* [[north, east], [south, west]]: in order, inverted, and collapsed to a point.
BoundsPool == {<<<<5, 8>>, <<1, 2>>>>, <<<<1, 2>>, <<5, 8>>>>,
               <<<<5, 2>>, <<1, 8>>>>, <<<<3, 3>>, <<3, 3>>>>}

AttributeLists == {<<>>, <<"id">>}

ConvertArgs ==
    {a \in [bounds : BoundsPool, svgNode : SvgNodes, complexity : ComplexityArgs,
            attributes : AttributeLists, collapsed : {"start", "middle"}] :
        \A k \in 1..Len(a.svgNode.elems) :
            Exact(a.svgNode.elems[k].pathData, Param(a.complexity, DefaultComplexity))}

DimsArgs == [svgNode : [width : WidthPool, height : HeightPool,
                        viewBox : ViewBoxPool, elems : {<<>>}]]

----------------------------------------------------------------------------
(* The state machine: a call is drawn, then run to its end.                *)

Pending == [status |-> "pending"]

\* Where the caller is after the function ran.
After(status) ==
    IF status = "ok" THEN "returned"
    ELSE IF status = "hang" THEN "running"
    ELSE "thrown"

InitReduce ==
    /\ fn = "reducePathSegCurveComplexity"
    /\ args \in ReduceArgs
    /\ pc = "call"
    /\ ret = Pending

InitDims ==
    /\ fn = "getSVGDimensions"
    /\ args \in DimsArgs
    /\ pc = "call"
    /\ ret = Pending

InitConvert ==
    /\ fn = "svgToGeoJson"
    /\ args \in ConvertArgs
    /\ pc = "call"
    /\ ret = Pending

Init == InitReduce \/ InitDims \/ InitConvert

CallReduce ==
    /\ pc = "call"
    /\ fn = "reducePathSegCurveComplexity"
    /\ ret' = reducePathSegCurveComplexity(args.pathSegList,
                                           Param(args.complexity, DefaultComplexity))
    /\ pc' = After(ret'.status)
    /\ UNCHANGED <<fn, args>>

CallDims ==
    /\ pc = "call"
    /\ fn = "getSVGDimensions"
    /\ ret' = [status |-> "ok", value |-> getSVGDimensions(args.svgNode)]
    /\ pc' = After(ret'.status)
    /\ UNCHANGED <<fn, args>>

CallConvert ==
    /\ pc = "call"
    /\ fn = "svgToGeoJson"
    /\ ret' = svgToGeoJson(args.bounds, args.svgNode,
                           Param(args.complexity, DefaultComplexity),
                           args.attributes, args.collapsed)
    /\ pc' = After(ret'.status)
    /\ UNCHANGED <<fn, args>>

Next == CallReduce \/ CallDims \/ CallConvert

Spec == Init /\ [][Next]_vars

\* The flattener alone.
SpecReduce == InitReduce /\ [][CallReduce]_vars
----------------------------------------------------------------------------
(* Properties.                                                             *)

IsReduce == fn = "reducePathSegCurveComplexity"

IsDims == fn = "getSVGDimensions"

IsConvert == fn = "svgToGeoJson"

\* The complexity the call runs with.
Complexity == Param(args.complexity, DefaultComplexity)

\* How many segments of newSegs the first k input segments pushed.
RECURSIVE SumPushed(_, _)
SumPushed(log, k) == IF k = 0 THEN 0 ELSE SumPushed(log, k - 1) + log[k].pushed

\* The anchor the callback used at input segment k.
AnchorUsed(log, k) == SliceLast2(log[k].lastSeg.values)

RemoveAt(s, k) == SubSeq(s, 1, k - 1) \o SubSeq(s, k + 1, Len(s))

IsCurve(seg) == seg.type = "C"

IsMoveOrClose(seg) == seg.type \in {"M", "Z"}

\* C1: every C segment with a preceding point and a length that is not zero
\* adds exactly `complexity` L segments, for every complexity >= 1.
C1_ExactlyComplexitySegments ==
    (IsReduce /\ pc = "returned" /\ Complexity >= 1) =>
        \A k \in 1..Len(args.pathSegList) :
            (IsCurve(args.pathSegList[k]) /\ ret.log[k].tmpPathLength > 0)
            => ret.log[k].pushed = Complexity

\* C2: a call with complexity 0 or negative fails with InvalidArgument and
\* gives back nothing, whatever the segment list.
C2_NonPositiveComplexityRejected ==
    ((IsReduce \/ IsConvert) /\ pc # "call" /\ Complexity <= 0) =>
        (pc = "thrown" /\ ret.status = "InvalidArgument")

BothParse(svgNode) ==
    ~isNaN(parseInt(svgNode.width)) /\ ~isNaN(parseInt(svgNode.height))

\* The viewBox attribute holds four numbers separated by white space.
ViewBoxNumbers(viewBox) ==
    /\ viewBox.t = "string"
    /\ Len(split(viewBox)) = 4
    /\ \A k \in 1..4 : split(viewBox)[k].str # <<>> /\ ~isNaN(ToNumber(split(viewBox)[k]))

\* C3: getSVGDimensions returns the declared width and height when both
\* parse as numbers, and otherwise the third and fourth number of a viewBox
\* that holds four numbers.
C3_DeclaredSizeElseViewBox ==
    (IsDims /\ pc = "returned") =>
        LET svgNode == args.svgNode
            dims    == ret.value
        IN  /\ BothParse(svgNode) =>
                dims = Dims(parseInt(svgNode.width), parseInt(svgNode.height))
            /\ (~BothParse(svgNode) /\ ViewBoxNumbers(svgNode.viewBox)) =>
                /\ dims.isObject
                /\ NumEq(ToNumber(dims.width), ToNumber(split(svgNode.viewBox)[3]))
                /\ NumEq(ToNumber(dims.height), ToNumber(split(svgNode.viewBox)[4]))

Positive(v) == ~isNaN(v) /\ v.num > 0

\* width and height, or else the viewBox, give two positive numbers.
UsableDimensions(svgNode) ==
    \/ Positive(parseInt(svgNode.width)) /\ Positive(parseInt(svgNode.height))
    \/ /\ ViewBoxNumbers(svgNode.viewBox)
       /\ Positive(ToNumber(split(svgNode.viewBox)[3]))
       /\ Positive(ToNumber(split(svgNode.viewBox)[4]))

\* C4: without usable dimensions svgToGeoJson fails with MissingDimensions
\* and returns no feature collection.  Stated for the calls that have an
\* element to project and a complexity >= 1.
C4_MissingDimensionsFails ==
    (/\ IsConvert /\ pc # "call" /\ Complexity >= 1
     /\ Len(args.svgNode.elems) >= 1
     /\ ~UsableDimensions(args.svgNode)) =>
        (pc = "thrown" /\ ret.status = "MissingDimensions")

\* The projection the call built, at the drawing point (x, y) in half px.
project(x, y) ==
    <<mapX(args.bounds, ret.svgDims, args.collapsed, Num(x)),
      mapY(args.bounds, ret.svgDims, args.collapsed, Num(y))>>

PointEq(p, lon, lat) == NumEq(p[1], Frac(lon, 1)) /\ NumEq(p[2], Frac(lat, 1))

\* C5: for any bounds and any resolved width and height the projection maps
\* (0, 0) to [west, north] and (width, height) to [east, south], and goes on
\* linearly outside the canvas: (2 width, 2 height) is as far beyond.
\* Stated for the calls with a complexity >= 1.
C5_CornersMapToBounds ==
    (IsConvert /\ pc = "returned" /\ Complexity >= 1 /\ ret.svgDims.isObject) =>
        LET north == ne(args.bounds)[1]
            east  == ne(args.bounds)[2]
            south == sw(args.bounds)[1]
            west  == sw(args.bounds)[2]
            w2    == 2 * ToNumber(ret.svgDims.width).num
            h2    == 2 * ToNumber(ret.svgDims.height).num
        IN  /\ PointEq(project(0, 0), west, north)
            /\ PointEq(project(w2, h2), east, south)
            /\ PointEq(project(2 * w2, 2 * h2), 2 * east - west, 2 * south - north)

\* C6: every Polygon feature with a ring that is not empty has a closed
\* ring: its first and its last coordinate are the same.  Stated for the
\* calls with a complexity >= 1.
C6_PolygonRingsClosed ==
    (IsConvert /\ pc = "returned" /\ Complexity >= 1) =>
        \A i \in 1..Len(ret.geoJson.features) :
            LET geometry == ret.geoJson.features[i].geometry
                ring     == geometry.coordinates[1]
            IN  (geometry.type = "Polygon" /\ Len(ring) > 0)
                => ring[1] = ring[Len(ring)]

\* C7: the last L segment a curve adds is at the curve's own end point,
\* values[4], values[5], for every complexity and every length.
C7_LastSegmentIsCurveEnd ==
    (IsReduce /\ pc = "returned") =>
        \A k \in 1..Len(args.pathSegList) :
            (IsCurve(args.pathSegList[k]) /\ ret.log[k].pushed >= 1)
            => ret.newSegs[SumPushed(ret.log, k)]
                   = LineTo(EndPt(args.pathSegList[k].values))

\* A curve added a sampled point that is not its end point, then its end.
C7_Witness ==
    /\ IsReduce /\ pc = "returned"
    /\ \E k \in 1..Len(args.pathSegList) :
          /\ IsCurve(args.pathSegList[k])
          /\ ret.log[k].pushed >= 2
          /\ ret.newSegs[SumPushed(ret.log, k) - 1].values
                 # EndPt(args.pathSegList[k].values)
          /\ Ctl2(args.pathSegList[k].values) # EndPt(args.pathSegList[k].values)

\* The outcome a caller sees: how the call ended and what it returned.
SameOutcome(r1, r2) == r1.status = r2.status /\ r1.newSegs = r2.newSegs

\* Curve k of the call adds nothing, and the call ends as it would have
\* without that curve in the list.
CurveIsNoOp(k) ==
    /\ ret.log[k].pushed = 0
    /\ SameOutcome(ret, reducePathSegCurveComplexity(RemoveAt(args.pathSegList, k),
                                                     Complexity))

\* C8, as stated: a curve whose start anchor equals its end point, or whose
\* length is zero, adds no segment, raises no error and leaves the
\* processing of the other segments as it is.  Stated for the calls with a
\* complexity >= 1.
C8_AnchorAtEndOrZeroLengthIsNoOp ==
    (IsReduce /\ pc # "call" /\ Complexity >= 1) =>
        \A k \in 1..Len(ret.log) :
            (/\ IsCurve(args.pathSegList[k])
             /\ ret.log[k].lastSeg # undefined
             /\ \/ AnchorUsed(ret.log, k) = EndPt(args.pathSegList[k].values)
                \/ ret.log[k].tmpPathLength = 0)
            => CurveIsNoOp(k)

\* C8, amended: a curve whose length is zero adds no segment, raises no
\* error and leaves the processing of the other segments as it is.
C8_ZeroLengthIsNoOp ==
    (IsReduce /\ pc # "call") =>
        \A k \in 1..Len(ret.log) :
            (/\ IsCurve(args.pathSegList[k])
             /\ ret.log[k].lastSeg # undefined
             /\ ret.log[k].tmpPathLength = 0)
            => CurveIsNoOp(k)

\* A curve of length zero drawn from a real anchor, with a curve after it
\* that was flattened.
C8_Witness ==
    /\ IsReduce /\ pc = "returned"
    /\ \E k \in 1..Len(args.pathSegList) :
          /\ IsCurve(args.pathSegList[k])
          /\ ret.log[k].lastSeg # undefined
          /\ Len(AnchorUsed(ret.log, k)) = 2
          /\ ret.log[k].tmpPathLength = 0
          /\ \E j \in (k + 1)..Len(args.pathSegList) :
                IsCurve(args.pathSegList[j]) /\ ret.log[j].pushed >= 2

\* C9: the output holds no C segment; every input segment that is no curve
\* is in it unchanged, in the input's order, and the L segments of a curve
\* stand where the curve stood.
C9_NonCurvesPassThrough ==
    (IsReduce /\ pc = "returned") =>
        LET segs == args.pathSegList
            out  == ret.newSegs
        IN  /\ Len(ret.log) = Len(segs)
            /\ Len(out) = SumPushed(ret.log, Len(segs))
            /\ \A j \in 1..Len(out) : ~IsCurve(out[j])
            /\ SelectSeq(out, IsMoveOrClose) = SelectSeq(segs, IsMoveOrClose)
            /\ \A k \in 1..Len(segs) :
                  IF IsCurve(segs[k])
                  THEN \A j \in (SumPushed(ret.log, k - 1) + 1)..SumPushed(ret.log, k) :
                          out[j].type = "L"
                  ELSE /\ ret.log[k].pushed = 1
                       /\ out[SumPushed(ret.log, k)] = segs[k]

\* A flattened curve between two segments that are no curves.
C9_Witness ==
    /\ IsReduce /\ pc = "returned"
    /\ Len(args.pathSegList) = 3
    /\ args.pathSegList[1].type = "M"
    /\ IsCurve(args.pathSegList[2]) /\ ret.log[2].pushed >= 2
    /\ args.pathSegList[3].type = "Z"

\* Some segment before index k has a point.
HasPointBefore(segs, k) == \E j \in 1..(k - 1) : Len(segs[j].values) >= 2

\* The last point met before index k: the end point of the nearest earlier
\* segment that has one.
LastPointBefore(segs, k) ==
    LET j == CHOOSE j \in 1..(k - 1) :
                /\ Len(segs[j].values) >= 2
                /\ \A m \in (j + 1)..(k - 1) : Len(segs[m].values) < 2
    IN  SliceLast2(segs[j].values)

\* C10: the start anchor of a C segment is the last point met before it,
\* also after a curve that added nothing or a ClosePath; a C segment with no
\* point before it makes the call fail with an error.  Stated for the calls
\* with a complexity >= 1.
C10_AnchorIsLastPoint ==
    (IsReduce /\ pc # "call" /\ Complexity >= 1) =>
        \A k \in 1..Len(ret.log) :
            IsCurve(args.pathSegList[k]) =>
                IF HasPointBefore(args.pathSegList, k)
                THEN /\ ret.log[k].lastSeg # undefined
                     /\ AnchorUsed(ret.log, k) = LastPointBefore(args.pathSegList, k)
                ELSE pc = "thrown" /\ Len(ret.log) = k
====
